---- MODULE Spec2Model ----
(***************************************************************************)
(* Model of the Bookshelf virtuals plugin (lib/plugins/virtuals.js).       *)
(*                                                                         *)
(* A model instance owns a live attribute set (this.attributes), and, only *)
(* while a patch-save processes its payload, a capture buffer              *)
(* (this.patchAttributes).  JavaScript runs each of get/set/save to        *)
(* completion on one thread, so each call is one action; what happened     *)
(* inside the call (setter invocations, calls into the base model, buffer  *)
(* allocation and release) is kept as the call's trace in `last`.          *)
(*                                                                         *)
(* Values are sequences of tokens: 'Ada Lovelace' is <<1, 2>>, 'Ada' is    *)
(* <<1>>, and JavaScript's undefined is <<0>>.  Objects used as bags are   *)
(* functions from key names to values; a bag a caller passes in is a       *)
(* sequence of key/value pairs, because lodash iterates own keys in        *)
(* insertion order and that order decides which setter runs first.         *)
(***************************************************************************)
EXTENDS Integers, Sequences, FiniteSets, TLC

\* Longest payload (number of keys) a caller passes to set or save.
MaxKeys == 2

-----------------------------------------------------------------------------
(* Values and bags *)

Undefined == <<0>>
NoErr == <<>>
EmptyMap == [x \in {} |-> Undefined]

Put(m, k, v) == [x \in (DOMAIN m) \cup {k} |-> IF x = k THEN v ELSE m[x]]

\* _.extend(m, n): keys of n overwrite keys of m.
Extend(m, n) ==
  [x \in (DOMAIN m) \cup (DOMAIN n) |-> IF x \in DOMAIN n THEN n[x] ELSE m[x]]

\* delete m[k]
Delete(m, k) == [x \in (DOMAIN m) \ {k} |-> m[x]]

RECURSIVE BagMap(_)
\* The object a key/value list denotes.
BagMap(bag) ==
  IF bag = <<>> THEN EmptyMap
  ELSE Put(BagMap(SubSeq(bag, 1, Len(bag) - 1)), bag[Len(bag)].k, bag[Len(bag)].v)

BagKeys(bag) == {bag[i].k : i \in 1..Len(bag)}

\* x.split(' ')[i - 1]
SplitPart(x, i) == IF i <= Len(x) THEN <<x[i]>> ELSE Undefined

-----------------------------------------------------------------------------
(* Model classes: the `virtuals` declaration of a Model.extend({...})      *)

RealNames == {"first", "last"}
VirtualNames == {"fullName", "initials", "checked", "alias"}
Names == RealNames \cup VirtualNames

Stmt(op, key, src, bag) == [op |-> op, key |-> key, src |-> src, bag |-> bag]

\* A declaration is a getter function, or a {get, set} pair.  The getter is
\* an expression over the instance; the setter is a list of statements.
Decl(getter, hasSet, setter) == [get |-> getter, hasSet |-> hasSet, set |-> setter]

JoinGetter(a, b) == [kind |-> "join", a |-> a, b |-> b, val |-> Undefined]
ConstGetter(v) == [kind |-> "const", a |-> "", b |-> "", val |-> v]

\* virtuals: {
\*   fullName: { get() { return this.get('first') + ' ' + this.get('last') },
\*               set(x) { this.set('first', x.split(' ')[0]);
\*                        this.set('last',  x.split(' ')[1]); } },
\*   initials() { return 'AL' },
\*   checked:  { get() {...}, set(x) { this.set('first', x); throw Error(x) } },
\*   alias:    { get() {...}, set(x) { this.set({fullName: x, last: x}) } } }
PersonVirtuals ==
  [n \in VirtualNames |->
     CASE n = "fullName" ->
            Decl(JoinGetter("first", "last"), TRUE,
                 << Stmt("set", "first", "part1", <<>>),
                    Stmt("set", "last", "part2", <<>>) >>)
       [] n = "initials" ->
            Decl(ConstGetter(<<9>>), FALSE, <<>>)
       [] n = "checked" ->
            Decl(JoinGetter("first", "first"), TRUE,
                 << Stmt("set", "first", "arg", <<>>),
                    Stmt("throw", "", "arg", <<>>) >>)
       [] n = "alias" ->
            Decl(JoinGetter("last", "first"), TRUE,
                 << Stmt("setBag", "", "arg",
                         << [k |-> "fullName", src |-> "arg"],
                            [k |-> "last", src |-> "arg"] >>) >>)]

\* virtuals: {
\*   fullName: as above,
\*   nick:   { get() {...}, set(x) { this.set('fullName', x) } },
\*   tag:    { get() {...}, set(x) { this.set({nick: x}) } },
\*   resave: { get() {...}, set(x) { this.set('first', x);
\*                                   this.save({last: x}, {patch: true});
\*                                   this.set('last', x.split(' ')[1]) } } }
TeamVirtuals ==
  [n \in {"fullName", "nick", "tag", "resave"} |->
     CASE n = "fullName" -> PersonVirtuals["fullName"]
       [] n = "nick" ->
            Decl(JoinGetter("first", "first"), TRUE,
                 << Stmt("set", "fullName", "arg", <<>>) >>)
       [] n = "tag" ->
            Decl(JoinGetter("first", "last"), TRUE,
                 << Stmt("setBag", "", "arg",
                         << [k |-> "nick", src |-> "arg"] >>) >>)
       [] n = "resave" ->
            Decl(JoinGetter("last", "last"), TRUE,
                 << Stmt("set", "first", "arg", <<>>),
                    Stmt("save", "", "arg", << [k |-> "last", src |-> "arg"] >>),
                    Stmt("set", "last", "part2", <<>>) >>)]

\* virtuals: { fullName() { return this.get('first') + ' ' + this.get('last') },
\*             initials() { return 'AL' } }
CardVirtuals ==
  [n \in {"fullName", "initials"} |->
     IF n = "fullName" THEN Decl(JoinGetter("first", "last"), FALSE, <<>>)
     ELSE Decl(ConstGetter(<<9>>), FALSE, <<>>)]

\* Person, Team and Card keep the plugin's outputVirtuals: true; Quiet is
\* Card with outputVirtuals: false; Plain declares no virtuals.
ClassNames == {"Plain", "Person", "Team", "Card", "Quiet"}

\* this.virtuals of an instance of the class.
ClassVirtuals(class) ==
  CASE class = "Person" -> PersonVirtuals
    [] class = "Team" -> TeamVirtuals
    [] class \in {"Card", "Quiet"} -> CardVirtuals
    [] OTHER -> EmptyMap

\* _.isObject(this.virtuals): a class that declares none has no virtuals
\* object at all.
HasVirtuals(class) == class # "Plain"

\* this.outputVirtuals
OutputVirtuals(class) == class # "Quiet"

\* A virtuals object is a plain object: looking a key up in it also finds
\* what it inherits from Object.prototype.  'toString' stands for those
\* members; it is a function, so it reads as a getter-only declaration,
\* and applied to the model it returns '[object Object]'.
InheritedNames == {"toString"}
ObjectToString == Decl(ConstGetter(<<10>>), FALSE, <<>>)

\* The names callers of an instance of the class use as keys.
ClassKeys(class) ==
  CASE class = "Person" -> Names \cup InheritedNames
    [] class = "Team" -> RealNames \cup DOMAIN TeamVirtuals
    [] class \in {"Card", "Quiet"} -> RealNames \cup DOMAIN CardVirtuals
    [] OTHER -> RealNames \cup InheritedNames

Eval(src, arg) ==
  CASE src = "arg" -> arg
    [] src = "part1" -> SplitPart(arg, 1)
    [] src = "part2" -> SplitPart(arg, 2)

\* The options of a call that passes none.  virtuals is "unset" for an
\* options object without the key, "true" and "false" for the booleans.
NoOptions == [method |-> "none", patch |-> FALSE, virtuals |-> "unset",
              omitNew |-> FALSE]

-----------------------------------------------------------------------------
(* State *)

VARIABLES
  class,            \* the model class the instance was built from
  attributes,       \* this.attributes, the live attribute set
  hasPatch,         \* whether this.patchAttributes exists on the instance
  patchAttributes,  \* this.patchAttributes (EmptyMap while it does not exist)
  isNew,            \* this.isNew(): no persisted identity yet
  failed,           \* what the most recent save left behind when it was rejected
  last              \* the call the caller is looking at: arguments, result, trace

vars == <<class, attributes, hasPatch, patchAttributes, isNew, failed, last>>

virtuals == ClassVirtuals(class)

\* this.virtuals[key], for a key that it finds.
virtualAt(key) == IF key \in DOMAIN virtuals THEN virtuals[key] ELSE ObjectToString

\* this.virtuals && this.virtuals[key]
IsVirtual(key) ==
  HasVirtuals(class) /\ (key \in DOMAIN virtuals \/ key \in InheritedNames)

-----------------------------------------------------------------------------
(* The instance while a call runs: the fields a call reads and writes, the  *)
(* exception in flight (NoErr when none) and the trace of what the call did *)

Instance == [attributes |-> attributes, hasPatch |-> hasPatch,
             patchAttributes |-> patchAttributes, isNew |-> isNew,
             thrown |-> NoErr, trace |-> <<>>]

\* One entry of a call's trace.  depth 0 is the call the caller made; the
\* calls a setter body makes are one deeper than the call that invoked it.
Event(s, ev, name, val, bag, flag, depth) ==
  [ev |-> ev, name |-> name, val |-> val, bag |-> bag, flag |-> flag,
   depth |-> depth, attrs |-> s.attributes, buffer |-> s.patchAttributes,
   hasBuffer |-> s.hasPatch]

Log(s, ev, name, val, bag, flag, depth) ==
  [s EXCEPT !.trace = Append(@, Event(s, ev, name, val, bag, flag, depth))]

\* proto.set(bag, options): the base model stores the keys in the live
\* attribute set.  flag records whether the instance was patching when
\* the plugin's set was entered.
protoSet(s, bag, isPatching, depth) ==
  LET s1 == [s EXCEPT !.attributes = Extend(@, bag)]
  IN Log(s1, "protoSet", "", Undefined, bag, isPatching, depth)

\* proto.get(attr)
protoGet(attrs, attr) == IF attr \in DOMAIN attrs THEN attrs[attr] ELSE Undefined

-----------------------------------------------------------------------------
(* The plugin: setVirtual and set *)

RECURSIVE setVirtual(_, _, _, _), RunSetter(_, _, _, _), Exec(_, _, _, _),
          set(_, _, _, _), setBag(_, _, _), omitBy(_, _, _, _), save(_, _, _)

\* setVirtual with `return true` moved under `if (virtual.set)`.
setVirtual_TrueOnlyWithSetter(s, value, key, depth) ==
  IF IsVirtual(key) /\ virtualAt(key).hasSet
  THEN [st |-> RunSetter(Log(s, "setter", key, value, EmptyMap, s.hasPatch, depth),
                         virtualAt(key).set, value, depth + 1),
        ret |-> TRUE]
  ELSE [st |-> s, ret |-> FALSE]

\* function setVirtual(value, key), called with the instance as `this`.
\* ret is its return value: true for a declared virtual, with or without a
\* setter; undefined (FALSE) for any other key.
setVirtual(s, value, key, depth) ==
  IF IsVirtual(key)
  THEN IF virtualAt(key).hasSet
       THEN [st |-> RunSetter(Log(s, "setter", key, value, EmptyMap, s.hasPatch, depth),
                              virtualAt(key).set, value, depth + 1),
             ret |-> TRUE]
       ELSE [st |-> s, ret |-> TRUE]
  ELSE [st |-> s, ret |-> FALSE]

\* virtual.set.call(this, value): the statements of the setter, in order,
\* up to the first that throws.
RunSetter(s, body, arg, depth) ==
  IF body = <<>> \/ s.thrown # NoErr THEN s
  ELSE RunSetter(Exec(s, Head(body), arg, depth), Tail(body), arg, depth)

\* One statement of a setter body.
Exec(s, stmt, arg, depth) ==
  CASE stmt.op = "set" -> set(s, stmt.key, Eval(stmt.src, arg), depth)
    [] stmt.op = "setBag" ->
         setBag(s, [i \in 1..Len(stmt.bag) |->
                      [k |-> stmt.bag[i].k, v |-> Eval(stmt.bag[i].src, arg)]], depth)
    [] stmt.op = "throw" -> [s EXCEPT !.thrown = Eval(stmt.src, arg)]
    [] stmt.op = "save" ->
         save(s, [i \in 1..Len(stmt.bag) |->
                    [k |-> stmt.bag[i].k, v |-> Eval(stmt.bag[i].src, arg)]],
              [NoOptions EXCEPT !.patch = TRUE]).st

\* _.omitBy(key, _.bind(setVirtual, this)): setVirtual is called once for
\* each key of the bag, in key order; the keys it returns true for are
\* left out.  kept is the keys kept so far.
omitBy(s, bag, kept, depth) ==
  IF bag = <<>> \/ s.thrown # NoErr THEN [st |-> s, kept |-> kept]
  ELSE LET r == setVirtual(s, Head(bag).v, Head(bag).k, depth)
       IN omitBy(r.st, Tail(bag),
                 IF r.ret THEN kept ELSE Put(kept, Head(bag).k, Head(bag).v), depth)

\* setBag extending the buffer with `key` instead of `nonVirtuals`.
setBag_BufferWholeBag(s, bag, depth) ==
  LET isPatching == s.hasPatch
      r == omitBy(s, bag, EmptyMap, depth)
      s1 == IF isPatching /\ r.st.hasPatch
            THEN [r.st EXCEPT !.patchAttributes = Extend(@, BagMap(bag))]
            ELSE r.st
  IN IF r.st.thrown # NoErr THEN r.st
     ELSE protoSet(s1, r.kept, isPatching, depth)

\* set(key, options) with an object as key.
setBag(s, bag, depth) ==
  LET isPatching == s.hasPatch
      r == omitBy(s, bag, EmptyMap, depth)
      nonVirtuals == r.kept
      s1 == IF isPatching /\ r.st.hasPatch
            THEN [r.st EXCEPT !.patchAttributes = Extend(@, nonVirtuals)]
            ELSE r.st
  IN IF r.st.thrown # NoErr THEN r.st
     ELSE protoSet(s1, nonVirtuals, isPatching, depth)

\* set with the buffer write of lines 89-92 ahead of the virtual test.
set_CaptureFirst(s, key, value, depth) ==
  LET isPatching == s.hasPatch
      r == setVirtual(s, value, key, depth)
      s1 == IF isPatching /\ r.st.hasPatch
            THEN [r.st EXCEPT !.patchAttributes = Put(@, key, value)]
            ELSE r.st
  IN IF r.st.thrown # NoErr THEN r.st
     ELSE IF r.ret THEN s1
     ELSE protoSet(s1, Put(EmptyMap, key, value), isPatching, depth)

\* set(key, value, options) with a string as key.
set(s, key, value, depth) ==
  LET isPatching == s.hasPatch
      r == setVirtual(s, value, key, depth)
      s1 == IF isPatching
            THEN [r.st EXCEPT !.patchAttributes = Put(@, key, value)]
            ELSE r.st
  IN IF r.st.thrown # NoErr THEN r.st
     ELSE IF r.ret THEN r.st
     ELSE protoSet(s1, Put(EmptyMap, key, value), isPatching, depth)

-----------------------------------------------------------------------------
(* The plugin: get *)

\* The getter of a declared virtual, run against the instance.
getVirtual(attrs, virtualName) ==
  LET g == virtualAt(virtualName).get
  IN IF g.kind = "join" THEN protoGet(attrs, g.a) \o protoGet(attrs, g.b)
     ELSE g.val

\* get looking in the real attribute set before the registry.
get_RealFirst(attrs, attr) ==
  IF attr \in DOMAIN attrs THEN protoGet(attrs, attr)
  ELSE IF IsVirtual(attr) THEN getVirtual(attrs, attr)
  ELSE protoGet(attrs, attr)

\* get(attr)
get(attrs, attr) ==
  IF IsVirtual(attr) THEN getVirtual(attrs, attr) ELSE protoGet(attrs, attr)

-----------------------------------------------------------------------------
(* The plugin: toJSON *)

\* proto.toJSON(options): the base model's plain mapping of the persisted
\* attributes.
protoToJSON(s, options) == s.attributes

RECURSIVE eachVirtual(_, _, _)
\* for (const virtualName in model.virtuals)
\*   attrs[virtualName] = getVirtual(model, virtualName, paramsForVirtual)
eachVirtual(s, todo, attrs) ==
  IF todo = {} THEN [st |-> s, attrs |-> attrs]
  ELSE LET virtualName == CHOOSE n \in todo : TRUE
           v == getVirtual(s.attributes, virtualName)
       IN eachVirtual(Log(s, "getter", virtualName, v, EmptyMap, FALSE, 0),
                      todo \ {virtualName}, Put(attrs, virtualName, v))

\* getVirtuals(model): the own names of model.virtuals, each with its
\* getter's value; nothing when the model has no virtuals object.
getVirtuals(s) ==
  IF HasVirtuals(class) THEN eachVirtual(s, DOMAIN virtuals, EmptyMap)
  ELSE [st |-> s, attrs |-> EmptyMap]

\* toJSON without the omitNew test.
omitted_Never(s, options) == FALSE

\* if (options && options.omitNew && this.isNew())
omitted(s, options) == options.omitNew /\ s.isNew

\* The inclusion test with the class default alone.
includeVirtuals_DefaultOnly(options) == OutputVirtuals(class)

\* if (!options || options.virtuals !== false)
\*   if ((options && options.virtuals === true) || this.outputVirtuals)
includeVirtuals(options) ==
  options.virtuals # "false" /\ (options.virtuals = "true" \/ OutputVirtuals(class))

\* The merge with the real attributes winning.
mergeVirtuals_RealWins(attrs, computed) == Extend(computed, attrs)

\* _.extend(attrs, getVirtuals(this, ...))
mergeVirtuals(attrs, computed) == Extend(attrs, computed)

\* toJSON(options)
toJSON(s, options) ==
  LET attrs == protoToJSON(s, options)
  IN IF omitted(s, options) THEN [st |-> s, attrs |-> attrs]
     ELSE IF includeVirtuals(options)
          THEN LET r == getVirtuals(s)
               IN [st |-> r.st, attrs |-> mergeVirtuals(attrs, r.attrs)]
          ELSE [st |-> s, attrs |-> attrs]

-----------------------------------------------------------------------------
(* The plugin: save *)

Result(kind, err, val) == [kind |-> kind, err |-> err, val |-> val]

\* save working on the caller's own objects.
clone_SameObject(x) == [obj |-> x, same |-> TRUE]

\* _.clone(x): a new object with the own keys and values of x.
clone(x) == [obj |-> x, same |-> FALSE]

\* this.saveMethod(options): the method the caller asked for, or insert
\* for a record without a persisted identity and update for one with.
saveMethod(s, options) ==
  IF options.method # "none" THEN options.method
  ELSE IF s.isNew THEN "insert" ELSE "update"

\* proto.save(attrs, options): the base model persists the payload; an
\* insert gives the record its identity.
protoSave(s, attrs, options) ==
  LET s1 == Log(s, "protoSave", options.method, Undefined, attrs, options.patch, 0)
  IN [s1 EXCEPT !.isNew = IF options.method = "insert" THEN FALSE ELSE @]

\* The patch test without the method.
isPatchSave_AnyMethod(options) == options.patch

\* if (options.method === 'update' && options.patch)
isPatchSave(options) == options.method = "update" /\ options.patch

\* this.patchAttributes = {}
allocate(s) ==
  LET s1 == [s EXCEPT !.hasPatch = TRUE, !.patchAttributes = EmptyMap]
  IN Log(s1, "alloc", "", Undefined, EmptyMap, TRUE, 0)

\* The delete at the end of the try block instead of in finally.
release_OnSuccessOnly(s) ==
  IF s.thrown # NoErr THEN s
  ELSE [Log(s, "release", "", Undefined, EmptyMap, FALSE, 0)
          EXCEPT !.hasPatch = FALSE, !.patchAttributes = EmptyMap]

\* save without the delete.
release_Never(s) == Log(s, "release", "", Undefined, EmptyMap, s.thrown # NoErr, 0)

\* finally { delete this.patchAttributes }
release(s) ==
  LET s1 == Log(s, "release", "", Undefined, EmptyMap, s.thrown # NoErr, 0)
  IN [s1 EXCEPT !.hasPatch = FALSE, !.patchAttributes = EmptyMap]

\* The loop without the delete.
strip_KeepKey(attrs, key, wasVirtual) == attrs

\* if (setVirtual.call(this, value, key)) delete attrs[key]
strip(attrs, key, wasVirtual) == IF wasVirtual THEN Delete(attrs, key) ELSE attrs

RECURSIVE eachAttr(_, _, _)
\* _.each(attrs, function (value, key) {...}): the keys attrs had when the
\* loop started, in order, up to the first setter that throws.
eachAttr(s, bag, attrs) ==
  IF bag = <<>> \/ s.thrown # NoErr THEN [st |-> s, attrs |-> attrs]
  ELSE LET r == setVirtual(s, Head(bag).v, Head(bag).k, 0)
       IN eachAttr(r.st, Tail(bag),
                   IF r.st.thrown # NoErr THEN attrs
                   ELSE strip(attrs, Head(bag).k, r.ret))

\* The merge with the payload's own values winning.
merge_PayloadWins(s, attrs) ==
  IF s.hasPatch THEN Extend(s.patchAttributes, attrs) ELSE attrs

\* _.extend(attrs, this.patchAttributes)
merge(s, attrs) == IF s.hasPatch THEN Extend(attrs, s.patchAttributes) ELSE attrs

\* catch (e) { Promise.reject(e) } without the return.
finish_NoReturn(s, attrs, options) ==
  IF s.thrown # NoErr
  THEN [st |-> protoSave([release(s) EXCEPT !.thrown = NoErr], attrs, options),
        result |-> Result("saved", NoErr, Undefined)]
  ELSE [st |-> protoSave(release(s), merge(s, attrs), options),
        result |-> Result("saved", NoErr, Undefined)]

\* The end of the patch branch: catch (e) { return Promise.reject(e) },
\* finally, and otherwise the call of proto.save with the merged payload.
finish(s, attrs, options) ==
  IF s.thrown # NoErr
  THEN [st |-> [release(s) EXCEPT !.thrown = NoErr],
        result |-> Result("rejected", s.thrown, Undefined)]
  ELSE [st |-> protoSave(release(s), merge(s, attrs), options),
        result |-> Result("saved", NoErr, Undefined)]

\* save(key, value, options), its arguments already brought to the pair
\* (attrs, options) of lines 102-108.
\* callerAttrs and callerOptions are the caller's two objects as the call
\* leaves them: what save did to attrs and options where these are the
\* caller's objects, the objects as passed where they are copies.
save(s, bag, opts) ==
  LET a == clone(BagMap(bag))
      o == clone(opts)
      attrs == a.obj
      options == [o.obj EXCEPT !.method = saveMethod(s, o.obj)]
  IN IF isPatchSave(options)
     THEN LET r == eachAttr(allocate(s), bag, attrs)
              f == finish(r.st, r.attrs, options)
          IN [st |-> f.st, result |-> f.result,
              callerAttrs |-> IF ~a.same THEN BagMap(bag)
                              ELSE IF r.st.thrown # NoErr THEN r.attrs
                              ELSE merge(r.st, r.attrs),
              callerOptions |-> IF o.same THEN options ELSE opts]
     ELSE [st |-> protoSave(s, attrs, options),
           result |-> Result("saved", NoErr, Undefined),
           callerAttrs |-> IF a.same THEN attrs ELSE BagMap(bag),
           callerOptions |-> IF o.same THEN options ELSE opts]

-----------------------------------------------------------------------------
(* What callers pass in *)

\* The names callers of this instance use as keys.
Keys == ClassKeys(class)

\* The value a caller's bag gives each key.
InputVal(k) ==
  CASE k = "fullName" -> <<1, 2>>
    [] k = "alias" -> <<3, 4>>
    [] k = "checked" -> <<5>>
    [] k = "initials" -> <<6>>
    [] k = "first" -> <<7>>
    [] k = "last" -> <<8>>
    [] k = "toString" -> <<11>>
    [] k = "nick" -> <<3, 4>>
    [] k = "tag" -> <<5, 6>>
    [] k = "resave" -> <<5, 6>>

\* The values of single-key calls.
Vals == {<<1, 2>>}

\* The key lists of n distinct names of K: the own keys of an object, in
\* order.
KeyLists(K, n) ==
  {f \in [1..n -> K] : \A i, j \in 1..n : i # j => f[i] # f[j]}

\* The bags with keys of K.
BagsOver(K) ==
  UNION {{[i \in 1..n |-> [k |-> f[i], v |-> InputVal(f[i])]] : f \in KeyLists(K, n)}
         : n \in 0..MaxKeys}

\* What callers of a Person pass to get, set and save.
PersonKeys == ClassKeys("Person")
PersonBags == BagsOver(PersonKeys)

\* What callers of the other classes pass; a caller of an instance uses
\* the keys of its class.
OtherClasses == ClassNames \ {"Person"}
OtherKeys == UNION {ClassKeys(c) : c \in OtherClasses}
OtherBags == UNION {BagsOver(ClassKeys(c)) : c \in OtherClasses}

\* The options callers pass to save: none, {patch: true}, and patch with
\* the method forced.
OptionSet ==
  {NoOptions, [NoOptions EXCEPT !.patch = TRUE],
   [NoOptions EXCEPT !.patch = TRUE, !.method = "update"]}

\* The options callers pass to toJSON: virtuals true, false or absent,
\* with and without omitNew.
JSONOptionSet ==
  {[NoOptions EXCEPT !.virtuals = v, !.omitNew = o]
     : v \in {"unset", "true", "false"}, o \in BOOLEAN}

-----------------------------------------------------------------------------
(* The calls *)

NoFailure == [present |-> FALSE, captured |-> EmptyMap]

Call(op, key, value, bag, options, result, trace) ==
  [op |-> op, key |-> key, value |-> value, bag |-> bag, options |-> options,
   result |-> result, trace |-> trace, json |-> EmptyMap,
   bagAfter |-> BagMap(bag), optionsAfter |-> options,
   before |-> attributes, hadBuffer |-> hasPatch, wasNew |-> isNew,
   prev |-> failed]

Idle == [op |-> "idle", key |-> "", value |-> Undefined, bag |-> <<>>,
         options |-> NoOptions, result |-> Result("none", NoErr, Undefined),
         trace |-> <<>>, json |-> EmptyMap, bagAfter |-> EmptyMap,
         optionsAfter |-> NoOptions, before |-> EmptyMap, hadBuffer |-> FALSE,
         wasNew |-> FALSE, prev |-> NoFailure]

\* The outcome of a set call: `this` when it returns, the error when a
\* setter threw.
Outcome(s) ==
  IF s.thrown # NoErr THEN Result("threw", s.thrown, Undefined)
  ELSE Result("returned", NoErr, Undefined)

Install(s) ==
  /\ attributes' = s.attributes
  /\ hasPatch' = s.hasPatch
  /\ patchAttributes' = s.patchAttributes
  /\ isNew' = s.isNew

TypeOK ==
  /\ class \in ClassNames
  /\ DOMAIN attributes \subseteq Keys
  /\ hasPatch \in BOOLEAN
  /\ DOMAIN patchAttributes \subseteq Keys
  /\ isNew \in BOOLEAN
  /\ failed.present \in BOOLEAN
  /\ last.op \in {"idle", "get", "set", "setBag", "setNull", "save", "saveKey", "store",
                 "toJSON"}

\* new Model(attributes): the record as built, with or without an id.
Init ==
  /\ class = "Person"
  /\ attributes \in {EmptyMap, [n \in RealNames |-> InputVal(n)]}
  /\ hasPatch = FALSE
  /\ patchAttributes = EmptyMap
  /\ isNew \in BOOLEAN
  /\ failed = NoFailure
  /\ last = Idle

\* model.get(attr)
Get(attr) ==
  /\ last.op = "idle"
  /\ last' = Call("get", attr, Undefined, <<>>, NoOptions,
                  Result("returned", NoErr, get(attributes, attr)), <<>>)
  /\ UNCHANGED <<class, attributes, hasPatch, patchAttributes, isNew, failed>>

\* model.set(null): if (key == null) return this
SetNull ==
  /\ last.op = "idle"
  /\ last' = Call("setNull", "", Undefined, <<>>, NoOptions,
                  Result("returned", NoErr, Undefined), <<>>)
  /\ UNCHANGED <<class, attributes, hasPatch, patchAttributes, isNew, failed>>

\* model.set(key, value)
Set(key, value) ==
  /\ last.op = "idle"
  /\ LET s == set(Instance, key, value, 0)
     IN /\ Install(s)
        /\ last' = Call("set", key, value, <<>>, NoOptions, Outcome(s), s.trace)
  /\ UNCHANGED <<class, failed>>

\* model.set({k1: v1, ...})
SetBag(bag) ==
  /\ last.op = "idle"
  /\ LET s == setBag(Instance, bag, 0)
     IN /\ Install(s)
        /\ last' = Call("setBag", "", Undefined, bag, NoOptions, Outcome(s), s.trace)
  /\ UNCHANGED <<class, failed>>

\* What a rejected save leaves for the next one to trip over: the buffer
\* as it was when the save gave up.
Leftover(r) ==
  IF r.result.kind = "rejected"
  THEN LET R == {i \in 1..Len(r.st.trace) : r.st.trace[i].ev = "release"}
       IN [present |-> TRUE,
           captured |-> IF R = {} THEN r.st.patchAttributes
                        ELSE r.st.trace[CHOOSE i \in R : TRUE].buffer]
  ELSE NoFailure

\* model.save({k1: v1, ...}, options)
Save(bag, options) ==
  /\ last.op = "idle"
  /\ LET r == save(Instance, bag, options)
     IN /\ Install(r.st)
        /\ failed' = Leftover(r)
        /\ last' = [Call("save", "", Undefined, bag, options, r.result, r.st.trace)
                       EXCEPT !.bagAfter = r.callerAttrs,
                              !.optionsAfter = r.callerOptions]
  /\ UNCHANGED class

\* model.save(key, value, options): (attrs = {})[key] = value
SaveKey(key, value, options) ==
  /\ last.op = "idle"
  /\ LET bag == <<[k |-> key, v |-> value]>>
         r == save(Instance, bag, options)
     IN /\ Install(r.st)
        /\ failed' = Leftover(r)
        /\ last' = [Call("saveKey", key, value, bag, options, r.result, r.st.trace)
                       EXCEPT !.optionsAfter = r.callerOptions]
  /\ UNCHANGED class

\* model.toJSON(options)
ToJSON(options) ==
  /\ last.op = "idle"
  /\ LET r == toJSON(Instance, options)
     IN last' = [Call("toJSON", "", Undefined, <<>>, options,
                      Result("returned", NoErr, Undefined), r.st.trace)
                   EXCEPT !.json = r.attrs]
  /\ UNCHANGED <<class, attributes, hasPatch, patchAttributes, isNew, failed>>

\* The base model's attribute set is a plain object the record layer
\* fills; a stored column can carry the name of a declared virtual.
Store(name, value) ==
  /\ last.op = "idle"
  /\ name \notin DOMAIN attributes
  /\ attributes' = Put(attributes, name, value)
  /\ last' = Call("store", name, value, <<>>, NoOptions,
                  Result("returned", NoErr, Undefined), <<>>)
  /\ UNCHANGED <<class, hasPatch, patchAttributes, isNew, failed>>

\* The caller has looked at the outcome and moves on.
Return ==
  /\ last.op # "idle"
  /\ last' = Idle
  /\ UNCHANGED <<class, attributes, hasPatch, patchAttributes, isNew, failed>>

\* The calls on an instance of Person.
Next ==
  \/ \E attr \in PersonKeys : Get(attr)
  \/ SetNull
  \/ \E key \in PersonKeys, value \in Vals : Set(key, value)
  \/ \E bag \in PersonBags : SetBag(bag)
  \/ \E bag \in PersonBags, options \in OptionSet : Save(bag, options)
  \/ \E key \in PersonKeys, value \in Vals, options \in OptionSet :
       SaveKey(key, value, options)
  \/ Store("fullName", <<4>>)
  \/ Return

Spec == Init /\ [][Next]_vars

\* An instance of one of the other classes, as built.
InitModels ==
  /\ class \in OtherClasses
  /\ attributes \in {EmptyMap, [n \in RealNames |-> InputVal(n)]}
  /\ hasPatch = FALSE
  /\ patchAttributes = EmptyMap
  /\ isNew \in BOOLEAN
  /\ failed = NoFailure
  /\ last = Idle

\* The calls on it; a caller uses the keys of the instance's class.
NextModels ==
  \/ \E attr \in OtherKeys : attr \in Keys /\ Get(attr)
  \/ \E key \in OtherKeys, value \in Vals : key \in Keys /\ Set(key, value)
  \/ \E bag \in OtherBags :
       last.op = "idle" /\ BagKeys(bag) \subseteq Keys /\ SetBag(bag)
  \/ \E bag \in OtherBags, options \in OptionSet :
       last.op = "idle" /\ BagKeys(bag) \subseteq Keys /\ Save(bag, options)
  \/ \E options \in JSONOptionSet : ToJSON(options)
  \/ \E key \in OtherKeys, value \in Vals, options \in OptionSet :
       key \in Keys /\ SaveKey(key, value, options)
  \/ \E name \in {"fullName"} : name \in Keys /\ Store(name, <<4>>)
  \/ Return
SpecModels == InitModels /\ [][NextModels]_vars

-----------------------------------------------------------------------------
(* Reading the trace of the call in `last` *)

Tr == last.trace
Idx == 1..Len(Tr)

SaveCall == last.op \in {"save", "saveKey"}

\* The method the save resolved to, from what the caller passed and the
\* record's identity when the call was made.
ResolvedMethod ==
  IF last.options.method # "none" THEN last.options.method
  ELSE IF last.wasNew THEN "insert" ELSE "update"

PatchUpdateCall == SaveCall /\ last.options.patch /\ ResolvedMethod = "update"

\* The payloads the call handed to the underlying persistence save.
Handed == {Tr[i].bag : i \in {j \in Idx : Tr[j].ev = "protoSave"}}

\* The keys of the caller's payload that are not declared virtuals.
OwnRealKeys == BagKeys(last.bag) \ DOMAIN virtuals

\* The positions of the capture phase: from the allocation of the buffer
\* to its release.
InCapture(i) ==
  /\ \E a \in Idx : a <= i /\ Tr[a].ev = "alloc"
  /\ \E r \in Idx : i <= r /\ Tr[r].ev = "release"

\* The real-attribute keys that reached the underlying set during capture.
WrittenInCapture ==
  UNION {DOMAIN Tr[i].bag : i \in {j \in Idx : Tr[j].ev = "protoSet" /\ InCapture(j)}}

\* The setters the call ran that throw.
ThrowsDirectly(v) ==
  /\ v \in DOMAIN virtuals
  /\ \E i \in 1..Len(virtuals[v].set) : virtuals[v].set[i].op = "throw"

Thrower(i) == Tr[i].ev = "setter" /\ ThrowsDirectly(Tr[i].name)

-----------------------------------------------------------------------------
(* Claims *)

\* C1: a save that resolves to update with patch set hands the underlying
\* save a payload whose keys are exactly the caller's non-virtual keys
\* plus the real-attribute keys the setters wrote through set during
\* capture, none of them a declared virtual; save({fullName: 'Ada
\* Lovelace'}, {patch: true}) hands over {first: 'Ada', last: 'Lovelace'}.
C1_PatchPayload ==
  PatchUpdateCall =>
    /\ \A p \in Handed :
         /\ DOMAIN p = OwnRealKeys \cup WrittenInCapture
         /\ DOMAIN p \cap DOMAIN virtuals = {}
    /\ (last.bag = <<[k |-> "fullName", v |-> <<1, 2>>]>> =>
          Handed = {[n \in {"first", "last"} |->
                       IF n = "first" THEN <<1>> ELSE <<2>>]})

\* C2: during the capture phase of a patch-save the live attribute set
\* stays as it was when the phase started, at every point of the phase
\* and when it ends, whether it ends normally or by a setter failure.
C2_LiveUnchangedInCapture ==
  PatchUpdateCall =>
    \A i \in Idx : InCapture(i) => Tr[i].attrs = last.before

\* C3: when a virtual setter throws while a patch-save processes its
\* payload, the save is rejected with that error and the underlying save
\* is not invoked.
C3_ThrowRejects ==
  SaveCall =>
    \A i \in Idx : Thrower(i) =>
      /\ last.result.kind = "rejected"
      /\ last.result.err = Tr[i].val
      /\ Handed = {}

C3_Witness ==
  /\ PatchUpdateCall
  /\ \E i \in Idx : Thrower(i) /\ Tr[i].val = <<1, 2>>
  /\ last.result = Result("rejected", <<1, 2>>, Undefined)

\* C4: the capture buffer exists only from its allocation by a patch-save
\* to the release in the same call: it is gone when the underlying save
\* is invoked and whenever a call has returned, after a setter failure
\* too, and no set outside a capture phase is captured.
C4_BufferOnlyInCapture ==
  /\ ~hasPatch
  /\ patchAttributes = EmptyMap
  /\ ~last.hadBuffer
  /\ \A i \in Idx :
       /\ Tr[i].hasBuffer => InCapture(i)
       /\ Tr[i].ev = "protoSave" => ~Tr[i].hasBuffer /\ Tr[i].buffer = EmptyMap
       /\ (Tr[i].ev = "protoSet" /\ ~InCapture(i)) => ~Tr[i].flag

C4_Witness ==
  /\ PatchUpdateCall
  /\ last.result.kind = "rejected"
  /\ \E i \in Idx : Tr[i].ev = "release" /\ Tr[i].buffer # EmptyMap
  /\ ~hasPatch

\* The value the caller's bag gives key k.
BagVal(k) == last.bag[CHOOSE i \in 1..Len(last.bag) : last.bag[i].k = k].v

\* The value of the last write of real attribute k that reached the
\* underlying set during the call.
LastWrite(k) ==
  LET W == {i \in Idx : Tr[i].ev = "protoSet" /\ k \in DOMAIN Tr[i].bag}
  IN Tr[CHOOSE i \in W : \A j \in W : j <= i].bag[k]

\* C5 as stated: no save call, patch or not, hands the underlying save a
\* payload with a declared virtual among its keys.
C5_NoVirtualInAnyPayload ==
  SaveCall => \A p \in Handed : DOMAIN p \cap DOMAIN virtuals = {}

\* C5, amended: a save that resolves to update with patch set never hands
\* the underlying save a declared virtual; what a virtual key of its
\* payload contributes is the real attributes its setter wrote through
\* set, with the values written.
C5_NoVirtualInPatchPayload ==
  PatchUpdateCall =>
    \A p \in Handed :
      /\ DOMAIN p \cap DOMAIN virtuals = {}
      /\ \A k \in DOMAIN p :
           IF k \in WrittenInCapture
           THEN /\ p[k] = LastWrite(k)
                /\ \E i \in Idx : /\ Tr[i].ev = "protoSet" /\ Tr[i].depth > 0
                                  /\ k \in DOMAIN Tr[i].bag
           ELSE k \in OwnRealKeys /\ p[k] = BagVal(k)

C5_Witness ==
  /\ PatchUpdateCall
  /\ last.bag = <<[k |-> "alias", v |-> <<3, 4>>]>>
  /\ Handed = {[n \in {"first", "last"} |-> IF n = "first" THEN <<3>> ELSE <<3, 4>>]}

\* C6: a save that is not a patch update (it resolves to insert, or to
\* update without patch) allocates no buffer and runs no setter, and hands
\* the underlying save exactly the keys and values the caller supplied.
C6_NonPatchBypass ==
  (SaveCall /\ ~PatchUpdateCall) =>
    /\ Len(Tr) = 1
    /\ Tr[1].ev = "protoSave"
    /\ ~Tr[1].hasBuffer
    /\ DOMAIN Tr[1].bag = BagKeys(last.bag)
    /\ \A k \in BagKeys(last.bag) : Tr[1].bag[k] = BagVal(k)
    /\ last.result.kind = "saved"
    /\ attributes = last.before

C6_Witness ==
  /\ SaveCall /\ last.options.patch /\ ResolvedMethod = "insert"
  /\ "checked" \in BagKeys(last.bag)
  /\ last.result.kind = "saved"
  /\ \E p \in Handed : "checked" \in DOMAIN p

\* C7: after a patch-save was rejected because a setter threw, nothing of
\* it is left on the instance, and the next save whose own setters do not
\* throw reaches the underlying save, starts from an empty buffer when it
\* is a patch-save, and hands over only what it wrote itself.
C7_SaveAfterFailure ==
  /\ failed.present => ~hasPatch /\ patchAttributes = EmptyMap
  /\ (SaveCall /\ last.prev.present /\ ~\E i \in Idx : Thrower(i)) =>
       /\ ~last.hadBuffer
       /\ last.result.kind = "saved"
       /\ Cardinality(Handed) = 1
       /\ \A i \in Idx : Tr[i].ev = "alloc" => Tr[i].buffer = EmptyMap
       /\ \A p \in Handed : \A k \in DOMAIN p \cap DOMAIN last.prev.captured :
            IF PatchUpdateCall /\ k \in WrittenInCapture
            THEN p[k] = LastWrite(k)
            ELSE k \in BagKeys(last.bag) /\ p[k] = BagVal(k)

C7_Witness ==
  /\ PatchUpdateCall
  /\ last.prev.present
  /\ "first" \in DOMAIN last.prev.captured
  /\ last.result.kind = "saved"
  /\ \E p \in Handed : "last" \in DOMAIN p /\ "first" \notin DOMAIN p

\* C8: a bag-form set that returns has invoked, for each key that is a
\* virtual with a setter, that setter exactly once with the key's value,
\* and has handed the underlying set exactly the non-virtual keys of the
\* bag with their values.
C8_BagPartition ==
  (last.op = "setBag" /\ last.result.kind = "returned") =>
    /\ \A k \in BagKeys(last.bag) :
         (k \in DOMAIN virtuals /\ virtuals[k].hasSet) =>
           LET C == {i \in Idx : Tr[i].ev = "setter" /\ Tr[i].depth = 0
                                 /\ Tr[i].name = k}
           IN Cardinality(C) = 1 /\ \A i \in C : Tr[i].val = BagVal(k)
    /\ \A i \in Idx : (Tr[i].ev = "setter" /\ Tr[i].depth = 0) =>
         Tr[i].name \in BagKeys(last.bag)
    /\ LET P == {i \in Idx : Tr[i].ev = "protoSet" /\ Tr[i].depth = 0}
       IN /\ Cardinality(P) = 1
          /\ \A i \in P :
               /\ DOMAIN Tr[i].bag = BagKeys(last.bag) \ DOMAIN virtuals
               /\ \A k \in DOMAIN Tr[i].bag : Tr[i].bag[k] = BagVal(k)

\* The declared virtuals that have no setter.
ReadOnly(k) == k \in DOMAIN virtuals /\ ~virtuals[k].hasSet

\* What the getter of virtual k computes from the live attribute set.
GetterValue(k) ==
  LET g == virtuals[k].get
  IN IF g.kind = "const" THEN g.val
     ELSE (IF g.a \in DOMAIN attributes THEN attributes[g.a] ELSE Undefined)
          \o (IF g.b \in DOMAIN attributes THEN attributes[g.b] ELSE Undefined)

\* The live attribute set holds the same under k as before the call.
SameUnder(k) ==
  /\ k \in DOMAIN attributes <=> k \in DOMAIN last.before
  /\ k \in DOMAIN attributes => attributes[k] = last.before[k]

\* C9: a write to a declared virtual that has no setter is a silent no-op
\* in single-key set, in bag-form set and as a key of a patch-save
\* payload: it raises nothing, it changes neither the live attribute set
\* nor the capture buffer, and a later get of the name returns what the
\* getter computes.
C9_ReadOnlyWriteIsNoOp ==
  /\ (last.op = "set" /\ ReadOnly(last.key)) =>
       /\ last.result.kind = "returned"
       /\ Tr = <<>>
       /\ attributes = last.before
  /\ (last.op = "setBag" \/ PatchUpdateCall) =>
       \A k \in BagKeys(last.bag) : ReadOnly(k) =>
         /\ SameUnder(k)
         /\ \A i \in Idx : /\ k \notin DOMAIN Tr[i].bag
                           /\ k \notin DOMAIN Tr[i].buffer
                           /\ Tr[i].name # k
         /\ (\A j \in BagKeys(last.bag) : ReadOnly(j) \/ j \notin DOMAIN virtuals) =>
              last.result.kind \in
                (IF last.op = "setBag" THEN {"returned"} ELSE {"saved"})
         /\ PatchUpdateCall => \A p \in Handed : k \notin DOMAIN p
  /\ (last.op = "get" /\ ReadOnly(last.key)) =>
       last.result.val = GetterValue(last.key)

C9_Witness ==
  /\ PatchUpdateCall
  /\ BagKeys(last.bag) = {"initials", "first"}
  /\ Handed = {[n \in {"first"} |-> <<7>>]}

\* C10: for a declared virtual, get returns the getter's result even when
\* the live attribute set holds a value under the same name, and neither
\* form of set passes the name to the underlying set, so no set call
\* stores anything under a virtual name.
C10_RegistryFirst ==
  /\ (last.op = "get" /\ last.key \in DOMAIN virtuals) =>
       last.result.val = GetterValue(last.key)
  /\ (last.op \in {"set", "setBag"}) =>
       /\ \A i \in Idx : Tr[i].ev = "protoSet" =>
            DOMAIN Tr[i].bag \cap DOMAIN virtuals = {}
       /\ \A k \in DOMAIN virtuals : SameUnder(k)

C10_Witness ==
  /\ last.op = "get" /\ last.key = "fullName"
  /\ "fullName" \in DOMAIN attributes
  /\ attributes["fullName"] = <<4>>
  /\ last.result.val = <<1, 2>>

\* C11: for a name the model's virtuals do not declare, get and set raise
\* nothing and run no virtual accessor: get returns what the underlying
\* get returns, and set hands the caller's key and value to the
\* underlying set.
C11_UndeclaredDelegates ==
  /\ (last.op = "get" /\ last.key \notin DOMAIN virtuals) =>
       /\ last.result.kind = "returned"
       /\ last.result.val = IF last.key \in DOMAIN attributes
                            THEN attributes[last.key] ELSE Undefined
  /\ (last.op = "set" /\ last.key \notin DOMAIN virtuals) =>
       /\ last.result.kind = "returned"
       /\ Len(Tr) = 1
       /\ Tr[1].ev = "protoSet"
       /\ DOMAIN Tr[1].bag = {last.key}
       /\ Tr[1].bag[last.key] = last.value
  /\ (last.op = "setBag" /\ BagKeys(last.bag) \cap DOMAIN virtuals = {}) =>
       /\ last.result.kind = "returned"
       /\ Len(Tr) = 1
       /\ Tr[1].ev = "protoSet"
       /\ DOMAIN Tr[1].bag = BagKeys(last.bag)
       /\ \A k \in BagKeys(last.bag) : Tr[1].bag[k] = BagVal(k)

-----------------------------------------------------------------------------
(* Serialization *)

JSONCall == last.op = "toJSON"

\* The call returned at the omitNew test.
ShortCircuited == last.options.omitNew /\ last.wasNew

\* The getters the call ran.
Getters == {Tr[i].name : i \in {j \in Idx : Tr[j].ev = "getter"}}

\* The output is the real representation with every declared virtual
\* merged in under its name, carrying what its getter computes.
Merged ==
  /\ Getters = DOMAIN virtuals
  /\ DOMAIN last.json = DOMAIN last.before \cup DOMAIN virtuals
  /\ \A n \in DOMAIN virtuals : last.json[n] = GetterValue(n)
  /\ \A n \in DOMAIN last.before \ DOMAIN virtuals : last.json[n] = last.before[n]

\* The output is the real representation and no getter ran.
Excluded == Getters = {} /\ last.json = last.before

\* C12: a toJSON call that omitNew does not cut short merges the virtuals
\* exactly when options.virtuals is true, or is unset and the class has
\* outputVirtuals enabled; with options.virtuals false it leaves them out
\* whatever the class default is.
C12_Inclusion ==
  (JSONCall /\ ~ShortCircuited) =>
    IF \/ last.options.virtuals = "true"
       \/ last.options.virtuals = "unset" /\ OutputVirtuals(class)
    THEN Merged ELSE Excluded

\* toJSON({virtuals: true}) on a class with outputVirtuals false merged
\* the virtuals.
C12_Witness ==
  /\ JSONCall /\ ~ShortCircuited
  /\ class = "Quiet"
  /\ last.options.virtuals = "true"
  /\ Merged
  /\ "fullName" \in DOMAIN last.json

\* C13: toJSON with omitNew on a record without a persisted identity
\* returns the real representation and runs no getter, whatever
\* options.virtuals and the class default are; on a persisted record the
\* virtuals are merged or left out as they are without omitNew.
C13_OmitNew ==
  (JSONCall /\ last.options.omitNew) =>
    IF last.wasNew THEN Excluded
    ELSE IF last.options.virtuals = "false" THEN Excluded
    ELSE IF last.options.virtuals = "true" THEN Merged
    ELSE IF OutputVirtuals(class) THEN Merged ELSE Excluded

\* toJSON({omitNew: true, virtuals: true}) on a new record of a class
\* with virtuals returned the real attributes alone.
C13_Witness ==
  /\ JSONCall /\ last.options.omitNew /\ last.wasNew
  /\ last.options.virtuals = "true"
  /\ class = "Card"
  /\ last.before # EmptyMap
  /\ Excluded

\* The class declares virtuals, none of them with a setter.
GetterOnly ==
  HasVirtuals(class) /\ \A n \in DOMAIN virtuals : ~virtuals[n].hasSet

\* C14 as stated: for every class with only getter virtuals, toJSON()
\* without options has the real keys and the virtual names as its keys,
\* each virtual carrying its getter's value.
C14_GetterOnlyKeys ==
  (JSONCall /\ last.options = NoOptions /\ GetterOnly) => Merged

\* C14: for a class with only getter virtuals and outputVirtuals enabled,
\* the keys of toJSON() without options are the real attribute keys and
\* the virtual names, each virtual name carrying its getter's value, also
\* where a real attribute has the same name.
C14_GetterOnlyKeysByDefault ==
  (JSONCall /\ last.options = NoOptions /\ GetterOnly /\ OutputVirtuals(class))
    => Merged

\* toJSON() on a Card whose attribute set has a stored fullName: the
\* output carries the getter's value under fullName.
C14_Witness ==
  /\ JSONCall /\ last.options = NoOptions
  /\ class = "Card"
  /\ "fullName" \in DOMAIN last.before
  /\ last.before["fullName"] # GetterValue("fullName")
  /\ Merged

-----------------------------------------------------------------------------
(* Capture and the payload *)

\* The payload the call itself handed to the underlying save: that of
\* its last call of proto.save.
Payload ==
  LET P == {i \in Idx : Tr[i].ev = "protoSave"}
  IN Tr[CHOOSE i \in P : \A j \in P : j <= i].bag

Saved == SaveCall /\ last.result.kind = "saved"

\* The buffers the call allocated.
Allocs == {i \in Idx : Tr[i].ev = "alloc"}

\* The real attributes the setters of the call wrote through set.
SetterWritten ==
  UNION {DOMAIN Tr[i].bag : i \in {j \in Idx : Tr[j].ev = "protoSet"}}

\* C15: in a patch-save, where a setter writes a real attribute that is
\* also a non-virtual key of the caller's payload, the payload handed to
\* the underlying save carries the setter's value under that key, in
\* whatever order the caller's keys are.
C15_BufferWins ==
  (PatchUpdateCall /\ Saved) =>
    \A k \in OwnRealKeys \cap SetterWritten :
      \A p \in Handed : k \in DOMAIN p /\ p[k] = LastWrite(k)

\* save({fullName: 'Ada Lovelace', first: 'x'}, {patch: true}): the
\* caller's first comes after the virtual, and the payload carries the
\* setter's first.
C15_Witness ==
  /\ PatchUpdateCall /\ Saved
  /\ Len(last.bag) = 2
  /\ last.bag[1].k = "fullName" /\ last.bag[2].k = "first"
  /\ "first" \in SetterWritten
  /\ LastWrite("first") # BagVal("first")
  /\ Payload["first"] = LastWrite("first")

\* A setter of the call called set on another virtual that has a setter.
Nested == \E i \in Idx : Tr[i].ev = "setter" /\ Tr[i].depth >= 1

\* C16: in a patch-save with one buffer, where a setter calls set, with a
\* key or with a bag, on another virtual whose setter sets real
\* attributes, every real attribute written along the chain is in the
\* payload handed to the underlying save with the value last written, and
\* no declared virtual is a key of it.
C16_ReentrantSet ==
  (PatchUpdateCall /\ Saved /\ Nested /\ Cardinality(Allocs) = 1
     /\ Cardinality(Handed) = 1) =>
    /\ \A k \in SetterWritten : k \in DOMAIN Payload /\ Payload[k] = LastWrite(k)
    /\ DOMAIN Payload \cap DOMAIN virtuals = {}

\* save({tag: x}, {patch: true}) on a Team: tag sets the bag {nick: x},
\* nick sets fullName, fullName sets first and last, and the payload is
\* {first, last}.
C16_Witness ==
  /\ PatchUpdateCall /\ Saved
  /\ class = "Team"
  /\ BagKeys(last.bag) = {"tag"}
  /\ \E i \in Idx : Tr[i].ev = "setter" /\ Tr[i].depth = 2 /\ Tr[i].name = "fullName"
  /\ \E i \in Idx : Tr[i].ev = "setter" /\ Tr[i].depth = 1 /\ Tr[i].name = "nick"
  /\ DOMAIN Payload = {"first", "last"}

\* C17: where a setter run by a patch-save starts a patch-save on its own
\* instance, the outer save hands the underlying save the caller's
\* non-virtual keys with the caller's values alone: what its setters
\* wrote before the inner save and what they write after it is missing,
\* and no buffer is left.
C17_OverlapLosesWrites ==
  (PatchUpdateCall /\ Saved /\ Cardinality(Allocs) >= 2) =>
    /\ DOMAIN Payload = OwnRealKeys
    /\ \A k \in OwnRealKeys : Payload[k] = BagVal(k)
    /\ ~hasPatch

\* save({fullName: x, resave: y}, {patch: true}) on a Team: first and
\* last were written before and after the inner save, and the outer
\* payload is empty.
C17_Witness ==
  /\ PatchUpdateCall /\ Saved
  /\ class = "Team"
  /\ Len(last.bag) = 2
  /\ last.bag[1].k = "fullName" /\ last.bag[2].k = "resave"
  /\ Cardinality(Allocs) = 2
  /\ {"first", "last"} \subseteq SetterWritten
  /\ Payload = EmptyMap

\* C18: wherever a buffer exists, during a call or between calls, no
\* declared virtual is a key of it.
C18_NoVirtualInBuffer ==
  /\ hasPatch => DOMAIN patchAttributes \cap DOMAIN virtuals = {}
  /\ \A i \in Idx :
       Tr[i].hasBuffer => DOMAIN Tr[i].buffer \cap DOMAIN virtuals = {}

\* save({alias: x}, {patch: true}): alias sets the bag {fullName, last};
\* the buffer holds first and last when it is released.
C18_Witness ==
  /\ PatchUpdateCall
  /\ BagKeys(last.bag) = {"alias"}
  /\ \E i \in Idx :
       /\ Tr[i].ev = "release" /\ Tr[i].hasBuffer
       /\ DOMAIN Tr[i].buffer = {"first", "last"}

\* C19: after a save, patch or not, fulfilled or rejected, the caller's
\* payload object has the keys and values it was passed with, virtual
\* keys included, and the caller's options object is as passed, without
\* a method added.
C19_CallerObjectsKept ==
  /\ last.op = "save" => last.bagAfter = BagMap(last.bag)
  /\ SaveCall => last.optionsAfter = last.options

\* A patch-save that stripped a virtual key and resolved the method, with
\* the caller's objects as passed.
C19_Witness ==
  /\ last.op = "save" /\ PatchUpdateCall /\ Saved
  /\ last.options.method = "none"
  /\ "fullName" \in BagKeys(last.bag)
  /\ "fullName" \notin DOMAIN Payload
  /\ last.bagAfter = BagMap(last.bag)
  /\ "fullName" \in DOMAIN last.bagAfter
  /\ last.optionsAfter.method = "none"

====
